---- MODULE Spec2Model ----
(***************************************************************************)
(* Model of async-std-demo (src/src/main.rs): a caller pushes a batch of   *)
(* futures into a FuturesUnordered, then drains it inside task::block_on   *)
(* with `while let Some(r) = futures.next().await`.                        *)
(*                                                                         *)
(* The futures are the async fns of main.rs (a sleep followed by a print   *)
(* and a return value, or a download in two awaited steps).  The unordered *)
(* multiplexer itself is the library type the demos call: its push / next  *)
(* are modelled as a set of incomplete tasks plus a FIFO ready-to-run      *)
(* queue, one call of next() polling the queued tasks until one completes. *)
(* Time is a discrete clock; a sleep started at time t with latency L is   *)
(* elapsed once the clock reads at least t + L, and the timer wakes its    *)
(* task in deadline order.  One poll pass is instantaneous on this clock.  *)
(***************************************************************************)
EXTENDS Integers, Sequences, FiniteSets, TLC

VARIABLES
    demo,       \* which demo function runs
    n,          \* number of futures the caller creates
    latency,    \* latency[i]: sleep_millis handed to future i
    pc,         \* caller position: "push", "drain", "sum", "finish", "done"
    pushed,     \* number of futures pushed so far (the loop counter)
    stage,      \* stage[i]: where future i is in its own body
    deadline,   \* deadline[i]: clock value at which the sleep of i elapses
    io,         \* io[i]: state of the network step future i awaits
    readyq,     \* the multiplexer's ready-to-run queue (FIFO of future ids)
    awake,      \* TRUE when the block_on task has been woken and will poll
    now,        \* the clock
    yielded,    \* results received from next(), in order of delivery
    absent,     \* how many times next() has returned None
    sum,        \* the caller's accumulator
    out,        \* lines printed so far
    pulledAtPush \* history: how many results had been received when
                \* future i was pushed

vars == <<demo, n, latency, pc, pushed, stage, deadline, io, readyq, awake,
          now, yielded, absent, sum, out, pulledAtPush>>

\* ---------------------------------------------------------------- bounds
MaxBatch == 3
MaxLatency == 3
MaxAbsent == 2
MaxLate == 2

\* ------------------------------------------------------ program constants
NumFutures == 10
FirstSleepMillis == 1000
SecondSleepMillis == 1500

SleepDemos == {"sleeps", "values", "errors"}
Demos == SleepDemos \cup {"urls"}

Ops == 0 .. (n - 1)

Range(s) == {s[k] : k \in 1 .. Len(s)}

\* ------------------------------------------------- the futures' bodies
Ok(v) == [ok |-> TRUE, val |-> v]
Err(tag) == [ok |-> FALSE, val |-> tag]

\* The parity test of the errors demo inverted.
OpValueOdd(d, i) ==
    CASE d = "sleeps" -> Ok(0)
      [] d = "values" -> Ok(i * 10)
      [] d = "errors" -> IF i % 2 = 1 THEN Ok(i * 10) ELSE Err(i)
      [] OTHER -> Ok(0)

\* What future i returns once its sleep is over.
OpValue(d, i) ==
    CASE d = "sleeps" -> Ok(0)
      [] d = "values" -> Ok(i * 10)
      [] d = "errors" -> IF i % 2 = 0 THEN Ok(i * 10) ELSE Err(i)
      [] OTHER -> Ok(0)

\* A sleep that does not wait.
SleepSkipped(dl, t) == TRUE

\* task::sleep(d).await is over once the clock has reached the deadline.
SleepElapsed(dl, t) == t >= dl

Line(kind, i) == [line |-> kind, id |-> i]

\* The sleeper called with its two arguments swapped.
PollSleeperSwapped(d, i, st, dl, lat, t) ==
    LET dl2 == IF st = "created" THEN t + i ELSE dl
        res == OpValue(d, i)
    IN  IF SleepElapsed(dl2, t)
        THEN [ready |-> TRUE, stage |-> "done", deadline |-> dl2,
              io |-> "none", out |-> <<Line("slept", lat)>>,
              ok |-> res.ok, val |-> res.val]
        ELSE [ready |-> FALSE, stage |-> "sleep", deadline |-> dl2,
              io |-> "none", out |-> <<>>, ok |-> TRUE, val |-> 0]

\* A sleeper that never arms its timer.
PollSleeperNoTimer(d, i, st, dl, lat, t) ==
    LET dl2 == IF st = "created" THEN t + lat ELSE dl
        res == OpValue(d, i)
    IN  IF SleepElapsed(dl2, t)
        THEN [ready |-> TRUE, stage |-> "done", deadline |-> dl2,
              io |-> "none", out |-> <<Line("slept", i)>>,
              ok |-> res.ok, val |-> res.val]
        ELSE [ready |-> FALSE, stage |-> st, deadline |-> dl2,
              io |-> "none", out |-> <<>>, ok |-> TRUE, val |-> 0]

\* One poll of a sleeping future: the first poll starts the sleep, a later
\* poll finds it elapsed, prints and returns.
PollSleeper(d, i, st, dl, lat, t) ==
    LET dl2 == IF st = "created" THEN t + lat ELSE dl
        res == OpValue(d, i)
    IN  IF SleepElapsed(dl2, t)
        THEN [ready |-> TRUE, stage |-> "done", deadline |-> dl2,
              io |-> "none", out |-> <<Line("slept", i)>>,
              ok |-> res.ok, val |-> res.val]
        ELSE [ready |-> FALSE, stage |-> "sleep", deadline |-> dl2,
              io |-> "none", out |-> <<>>, ok |-> TRUE, val |-> 0]

\* A download that goes on to read the body after a failed fetch.
PollDownloadIgnoreErr(i, st, ioi) ==
    CASE st = "created" ->
            [ready |-> FALSE, stage |-> "fetch", deadline |-> 0,
             io |-> "pending", out |-> <<Line("downloading", i)>>,
             ok |-> TRUE, val |-> 0]
      [] st = "fetch" /\ ioi \in {"ok", "err"} ->
            [ready |-> FALSE, stage |-> "body", deadline |-> 0,
             io |-> "pending", out |-> <<>>, ok |-> TRUE, val |-> 0]
      [] st = "body" /\ ioi = "ok" ->
            [ready |-> TRUE, stage |-> "done", deadline |-> 0,
             io |-> "none", out |-> <<Line("downloaded", i)>>,
             ok |-> TRUE, val |-> 0]
      [] st = "body" /\ ioi = "err" ->
            [ready |-> TRUE, stage |-> "done", deadline |-> 0,
             io |-> "none", out |-> <<>>, ok |-> FALSE, val |-> i]
      [] OTHER ->
            [ready |-> FALSE, stage |-> st, deadline |-> 0,
             io |-> ioi, out |-> <<>>, ok |-> TRUE, val |-> 0]

\* One poll of download_url: print, await the fetch, await the body, print.
\* `?` returns the error of either await at once.
PollDownload(i, st, ioi) ==
    CASE st = "created" ->
            [ready |-> FALSE, stage |-> "fetch", deadline |-> 0,
             io |-> "pending", out |-> <<Line("downloading", i)>>,
             ok |-> TRUE, val |-> 0]
      [] st = "fetch" /\ ioi = "ok" ->
            [ready |-> FALSE, stage |-> "body", deadline |-> 0,
             io |-> "pending", out |-> <<>>, ok |-> TRUE, val |-> 0]
      [] st = "body" /\ ioi = "ok" ->
            [ready |-> TRUE, stage |-> "done", deadline |-> 0,
             io |-> "none", out |-> <<Line("downloaded", i)>>,
             ok |-> TRUE, val |-> 0]
      [] st \in {"fetch", "body"} /\ ioi = "err" ->
            [ready |-> TRUE, stage |-> "done", deadline |-> 0,
             io |-> "none", out |-> <<>>, ok |-> FALSE, val |-> i]
      [] OTHER ->
            [ready |-> FALSE, stage |-> st, deadline |-> 0,
             io |-> ioi, out |-> <<>>, ok |-> TRUE, val |-> 0]

PollFuture(d, i, st, dl, lat, ioi, t) ==
    IF d = "urls" THEN PollDownload(i, st, ioi)
    ELSE PollSleeper(d, i, st, dl, lat, t)

\* --------------------------------------------------- the multiplexer
\* The batch: the futures pushed and not yet completed.
Batch(st) == {i \in DOMAIN st : st[i] \notin {"unpushed", "done"}}

\* Variants of the emptiness test: one that takes an idle ready queue for an
\* empty batch, one that never reports empty, one that still counts the
\* completed tasks.
IsEmptyWhenIdle(st) == TRUE
IsEmptyNever(st) == FALSE
IsEmptyUntouched(st) == \A i \in DOMAIN st : st[i] = "unpushed"

\* FuturesUnordered::is_empty: no task is linked.
IsEmpty(st) == Batch(st) = {}

\* A push or wake that links the task without scheduling a poll of it.
EnqueueNothing(q, i) == q

\* FuturesUnordered::push: link the task and put it on the ready-to-run
\* queue so that the next poll gives it its first poll.
Enqueue(q, i) == Append(q, i)

\* Which queued task the multiplexer polls next: the oldest entry.
Dequeue(q) == [task |-> Head(q), rest |-> Tail(q)]

Some(i, r) == [kind |-> "some", id |-> i, ok |-> r.ok, val |-> r.val]
None == [kind |-> "none", id |-> 0, ok |-> TRUE, val |-> 0]
Pending == [kind |-> "pending", id |-> 0, ok |-> TRUE, val |-> 0]

\* One call of poll_next: poll the queued tasks in turn; the first one that
\* completes is unlinked and returned; with the queue drained the answer is
\* None for an empty batch and Pending otherwise.
RECURSIVE PollNext(_, _, _, _, _, _, _, _)
PollNext(d, q, st, dl, lat, ios, t, ou) ==
    IF q = <<>>
    THEN [result |-> IF IsEmpty(st) THEN None ELSE Pending,
          readyq |-> q, stage |-> st, deadline |-> dl, io |-> ios, out |-> ou]
    ELSE LET dq == Dequeue(q)
             i == dq.task
             p == PollFuture(d, i, st[i], dl[i], lat[i], ios[i], t)
             st2 == [st EXCEPT ![i] = p.stage]
             dl2 == [dl EXCEPT ![i] = p.deadline]
             io2 == [ios EXCEPT ![i] = p.io]
         IN  IF p.ready
             THEN [result |-> Some(i, p), readyq |-> dq.rest, stage |-> st2,
                   deadline |-> dl2, io |-> io2, out |-> ou \o p.out]
             ELSE PollNext(d, dq.rest, st2, dl2, lat, io2, t, ou \o p.out)

\* ------------------------------------------------- the caller's loop
\* Variants of the loop condition: a loop that takes one result only, and a
\* loop that stops at the first error.
IfLetSome(r) == FALSE
WhileLetOk(r) == r.kind = "some" /\ r.ok

\* `while let Some(r) = futures.next().await`: the loop goes on for Some.
WhileLetSome(r) == r.kind = "some"

\* An accumulator assigned instead of added to.
FoldLast(d, s, r) ==
    CASE d = "values" -> r.val
      [] d = "errors" -> IF r.ok THEN r.val ELSE s
      [] OTHER -> s

\* An accumulator that also adds what an Err carries.
FoldAll(d, s, r) ==
    CASE d = "values" -> s + r.val
      [] d = "errors" -> s + r.val
      [] OTHER -> s

\* An accumulator shadowed inside the loop body: the outer sum never moves.
FoldShadowed(d, s, r) == s

\* The loop body's effect on the accumulator.
Fold(d, s, r) ==
    CASE d = "values" -> s + r.val
      [] d = "errors" -> IF r.ok THEN s + r.val ELSE s
      [] OTHER -> s

\* A loop body that drops the error.
ReportSilent(d, r) == <<>>

\* What the loop body prints for a result.
Report(d, r) ==
    IF d \in {"errors", "urls"} /\ ~r.ok THEN <<Line("error", r.val)>>
    ELSE <<>>

\* Where the caller goes when the loop is left.
AfterLoop(d) == IF d \in {"values", "errors"} THEN "sum" ELSE "finish"

\* ------------------------------------------------------------ initial
InitRun ==
    /\ pushed = 0
    /\ stage = [i \in Ops |-> "unpushed"]
    /\ deadline = [i \in Ops |-> 0]
    /\ io = [i \in Ops |-> "none"]
    /\ readyq = <<>>
    /\ now = 0
    /\ yielded = <<>>
    /\ absent = 0
    /\ sum = 0
    /\ out = <<>>
    /\ pulledAtPush = [i \in Ops |-> 0]

Init ==
    /\ demo \in Demos
    /\ n \in 0 .. MaxBatch
    /\ latency \in IF demo = "urls" THEN {[i \in Ops |-> 0]}
                   ELSE [Ops -> 1 .. MaxLatency]
    /\ pc = "push"
    /\ awake = FALSE
    /\ InitRun

\* ------------------------------------------------------------ actions
\* A creation loop that starts each future as it is created (as a spawn
\* would) instead of only storing it.
PushEager ==
    LET p == PollFuture(demo, pushed, "created", 0, latency[pushed], "none",
                        now)
    IN  /\ pc = "push"
        /\ pushed < n
        /\ stage' = [stage EXCEPT ![pushed] = p.stage]
        /\ deadline' = [deadline EXCEPT ![pushed] = p.deadline]
        /\ io' = [io EXCEPT ![pushed] = p.io]
        /\ out' = out \o p.out
        /\ readyq' = Enqueue(readyq, pushed)
        /\ pushed' = pushed + 1
        /\ pulledAtPush' = [pulledAtPush EXCEPT ![pushed] = Len(yielded)]
        /\ UNCHANGED <<demo, n, latency, pc, awake, now, yielded, absent,
                       sum>>

\* One iteration of the creation loop: futures.push(...) of future `pushed`.
Push ==
    /\ pc = "push"
    /\ pushed < n
    /\ stage' = [stage EXCEPT ![pushed] = "created"]
    /\ readyq' = Enqueue(readyq, pushed)
    /\ pushed' = pushed + 1
    /\ pulledAtPush' = [pulledAtPush EXCEPT ![pushed] = Len(yielded)]
    /\ UNCHANGED <<demo, n, latency, pc, deadline, io, awake, now, yielded,
                   absent, sum, out>>

\* task::block_on(async { ... }) starts running the drain loop.
StartDrain ==
    /\ pc = "push"
    /\ pushed = n
    /\ pc' = "drain"
    /\ awake' = TRUE
    /\ UNCHANGED <<pulledAtPush, demo, n, latency, pushed, stage, deadline, io, readyq,
                   now, yielded, absent, sum, out>>

Polled == PollNext(demo, readyq, stage, deadline, latency, io, now, <<>>)

\* The multiplexer's own state after one call of poll_next.
Multiplexed(r) ==
    /\ readyq' = r.readyq
    /\ stage' = r.stage
    /\ deadline' = r.deadline
    /\ io' = r.io

\* futures.next().await finds nothing complete: the task suspends.
AwaitNext ==
    /\ pc = "drain"
    /\ awake
    /\ Polled.result.kind = "pending"
    /\ Multiplexed(Polled)
    /\ out' = out \o Polled.out
    /\ awake' = FALSE
    /\ UNCHANGED <<pulledAtPush, demo, n, latency, pc, pushed, now, yielded, absent, sum>>

\* futures.next().await returns Some(r): the loop body runs on r.
LoopBody ==
    /\ pc = "drain"
    /\ awake
    /\ Polled.result.kind = "some"
    /\ Multiplexed(Polled)
    /\ yielded' = Append(yielded, Polled.result)
    /\ sum' = Fold(demo, sum, Polled.result)
    /\ out' = out \o Polled.out \o Report(demo, Polled.result)
    /\ pc' = IF WhileLetSome(Polled.result) THEN "drain" ELSE AfterLoop(demo)
    /\ UNCHANGED <<pulledAtPush, demo, n, latency, pushed, awake, now, absent>>

\* futures.next().await returns None: the loop and block_on end.
LoopExit ==
    /\ pc = "drain"
    /\ awake
    /\ Polled.result.kind = "none"
    /\ Multiplexed(Polled)
    /\ absent' = absent + 1
    /\ out' = out \o Polled.out
    /\ pc' = IF WhileLetSome(Polled.result) THEN "drain" ELSE AfterLoop(demo)
    /\ UNCHANGED <<pulledAtPush, demo, n, latency, pushed, awake, now, yielded, sum>>

\* println!("Sum of all values returned = {}", sum)
ShowSum ==
    /\ pc = "sum"
    /\ out' = Append(out, Line("sum", sum))
    /\ pc' = "finish"
    /\ UNCHANGED <<pulledAtPush, demo, n, latency, pushed, stage, deadline, io, readyq,
                   awake, now, yielded, absent, sum>>

\* main: println!("Program finished ...") after the demo returned.
Finish ==
    /\ pc = "finish"
    /\ out' = Append(out, Line("finished", 0))
    /\ pc' = "done"
    /\ UNCHANGED <<pulledAtPush, demo, n, latency, pushed, stage, deadline, io, readyq,
                   awake, now, yielded, absent, sum>>

\* ------------------------------------------- timers and the network
\* A waker that queues its task whether or not it is queued already.
WaitingOrQueued(i) == stage[i] = "sleep"

\* Future i is suspended in its sleep and its task is not queued.
Waiting(i) == stage[i] = "sleep" /\ i \notin Range(readyq)

\* The clock advances while some sleep has not elapsed yet.
Tick ==
    /\ \E i \in Ops : stage[i] = "sleep" /\ ~SleepElapsed(deadline[i], now)
    /\ now' = now + 1
    /\ UNCHANGED <<pulledAtPush, demo, n, latency, pc, pushed, stage, deadline, io, readyq,
                   awake, yielded, absent, sum, out>>

\* The timer of future i expires: its waker queues the task and wakes the
\* task blocked in block_on.  Timers expire in deadline order.
TimerFire(i) ==
    /\ Waiting(i)
    /\ SleepElapsed(deadline[i], now)
    /\ \A j \in Ops : Waiting(j) => deadline[j] >= deadline[i]
    /\ readyq' = Enqueue(readyq, i)
    /\ awake' = TRUE
    /\ UNCHANGED <<pulledAtPush, demo, n, latency, pc, pushed, stage, deadline, io, now,
                   yielded, absent, sum, out>>

\* The network step future i awaits ends, well or badly.
IoComplete(i, res) ==
    /\ stage[i] \in {"fetch", "body"}
    /\ io[i] = "pending"
    /\ io' = [io EXCEPT ![i] = res]
    /\ readyq' = Enqueue(readyq, i)
    /\ awake' = TRUE
    /\ UNCHANGED <<pulledAtPush, demo, n, latency, pc, pushed, stage, deadline, now,
                   yielded, absent, sum, out>>

Next ==
    \/ Push
    \/ StartDrain
    \/ AwaitNext
    \/ LoopBody
    \/ LoopExit
    \/ ShowSum
    \/ Finish
    \/ Tick
    \/ \E i \in Ops : TimerFire(i)
    \/ \E i \in Ops : \E res \in {"ok", "err"} : IoComplete(i, res)

Spec == Init /\ [][Next]_vars

\* ------------------------------------------------------------ properties
Delivered(i) == \E k \in 1 .. Len(yielded) : yielded[k].id = i
Pos(i) == CHOOSE k \in 1 .. Len(yielded) : yielded[k].id = i
LoopLeft == pc \in {"sum", "finish", "done"}

\* C1 -- exactly-once delivery: no future's result is received twice, never
\* more results than pushes, and when the drain loop has ended (next()
\* returned None) exactly the n pushed futures have each been received.
ExactlyOnce ==
    /\ \A k1, k2 \in 1 .. Len(yielded) :
          yielded[k1].id = yielded[k2].id => k1 = k2
    /\ Len(yielded) <= pushed
    /\ (LoopLeft \/ absent > 0) =>
          /\ Len(yielded) = n
          /\ \A i \in Ops : Delivered(i)
          /\ absent = 1

ExactlyOnceWitness ==
    /\ pc = "done"
    /\ n >= 3
    /\ Len(yielded) = n
    /\ absent = 1
    /\ yielded[1].id # 0

\* C2 -- failure isolation: in the demos whose futures can fail, a future is
\* out of the batch only by having its own result delivered, each delivered
\* result is the one its future computes, the loop ends only after all n
\* results, and in the errors demo deliveries still follow the sleep times.
FailureIsolation ==
    demo \in {"errors", "urls"} =>
        /\ \A i \in Ops : stage[i] = "done" <=> Delivered(i)
        /\ \A k \in 1 .. Len(yielded) :
              IF demo = "errors"
              THEN /\ yielded[k].ok = (yielded[k].id % 2 = 0)
                   /\ yielded[k].val = IF yielded[k].ok
                                       THEN yielded[k].id * 10
                                       ELSE yielded[k].id
              ELSE yielded[k].val = IF yielded[k].ok THEN 0 ELSE yielded[k].id
        /\ LoopLeft => \A i \in Ops : Delivered(i)
        /\ demo = "errors" =>
              \A p, q \in 1 .. Len(yielded) :
                  p < q => latency[yielded[p].id] <= latency[yielded[q].id]

FailureIsolationWitness ==
    /\ pc = "done"
    /\ demo \in {"errors", "urls"}
    /\ Len(yielded) = n
    /\ n >= 3
    /\ ~yielded[1].ok
    /\ yielded[2].ok
    /\ ~yielded[3].ok

InFlight == {i \in Ops : stage[i] \notin {"unpushed", "done"}}
NextCall == AwaitNext \/ LoopBody \/ LoopExit

\* C3 -- exhaustion correctness: a call of next() returns None exactly when
\* no pushed future is incomplete at the call; after a None every pushed
\* future has had its result delivered; the caller is never left suspended
\* in next() on an empty batch.
ExhaustionCorrect ==
    /\ [][NextCall => ((absent' = absent + 1) <=> (InFlight = {}))]_vars
    /\ [](absent > 0 => \A i \in 0 .. (pushed - 1) : Delivered(i))
    /\ []((pc = "drain" /\ ~awake) => InFlight # {})

ExhaustionWitness ==
    /\ absent = 1
    /\ n >= 2
    /\ InFlight = {}
    /\ Len(yielded) = n

\* C9 -- empty batch: with nothing pushed, the first call of next() returns
\* None and the loop body never runs.
EmptyBatch ==
    n = 0 =>
        /\ yielded = <<>>
        /\ sum = 0
        /\ pc = "drain" => (awake /\ Polled.result.kind = "none")
        /\ LoopLeft => absent = 1

EmptyBatchWitness ==
    /\ n = 0
    /\ pc = "done"
    /\ absent = 1
    /\ yielded = <<>>

\* C5 -- order independence: in the sleep demos, if future i has a smaller
\* sleep time than future j and j has been delivered, then i was delivered
\* earlier, whichever of the two was pushed first.
OrderByLatency ==
    demo \in SleepDemos =>
        \A i, j \in Ops :
            (latency[i] < latency[j] /\ Delivered(j)) =>
                (Delivered(i) /\ Pos(i) < Pos(j))

OrderByLatencyWitness ==
    /\ demo \in SleepDemos
    /\ n >= 2
    /\ latency[1] < latency[0]
    /\ Delivered(0)
    /\ Delivered(1)
    /\ Pos(1) < Pos(0)

\* C6 -- submission order is not forced: when a drain has ended, any two
\* futures with different sleep times were delivered in the order of their
\* sleep times; a later push with the shorter sleep came out first and an
\* earlier push with the shorter sleep came out first.
NotSubmissionOrder ==
    (demo \in SleepDemos /\ LoopLeft) =>
        \A a, b \in Ops :
            a < b =>
                /\ latency[b] < latency[a] => Pos(b) < Pos(a)
                /\ latency[a] < latency[b] => Pos(a) < Pos(b)

\* One run with a pair delivered against push order (2 before 0) and a pair
\* delivered in push order (0 before 1).
NotSubmissionOrderWitness ==
    /\ demo \in SleepDemos
    /\ LoopLeft
    /\ n = 3
    /\ Pos(2) < Pos(0)
    /\ Pos(0) < Pos(1)

\* ---------------------------------------------- the ten-future scenarios
\* The demos' own batch of NumFutures futures, with the sleep times injected
\* from a few deterministic plans instead of the random source.
ReversePlan == [i \in 0 .. (NumFutures - 1) |-> (NumFutures - 1) - i]
ForwardPlan == [i \in 0 .. (NumFutures - 1) |-> i + 1]
PairedPlan == [i \in 0 .. (NumFutures - 1) |-> 1 + (((i + 3) % NumFutures) \div 2)]
Plans == {ReversePlan, ForwardPlan, PairedPlan}

InitScenario ==
    /\ demo \in {"values", "errors"}
    /\ n = NumFutures
    /\ latency \in Plans
    /\ pc = "push"
    /\ awake = FALSE
    /\ InitRun

NextScenario ==
    \/ Push
    \/ StartDrain
    \/ AwaitNext
    \/ LoopBody
    \/ LoopExit
    \/ ShowSum
    \/ Finish
    \/ Tick
    \/ \E i \in Ops : TimerFire(i)

SpecScenario == InitScenario /\ [][NextScenario]_vars

YieldedIds == [k \in 1 .. Len(yielded) |-> yielded[k].id]
Successes == {k \in 1 .. Len(yielded) : yielded[k].ok}
Failures == {k \in 1 .. Len(yielded) : ~yielded[k].ok}
FailureTags == {yielded[k].val : k \in Failures}
ErrorLines == {k \in 1 .. Len(out) : out[k].line = "error"}

\* C7 -- aggregation scenario: ten futures, future i returning i*10 after
\* 9 - i time units: the results arrive in the order 9,8,...,0 and once the
\* loop has ended the sum is 450.
AggregationScenario ==
    (demo = "values" /\ latency = ReversePlan) =>
        /\ \A k \in 1 .. Len(yielded) : yielded[k].id = NumFutures - k
        /\ LoopLeft => (sum = 450 /\ Len(yielded) = NumFutures)

AggregationWitness ==
    /\ demo = "values"
    /\ latency = ReversePlan
    /\ pc = "done"
    /\ sum = 450
    /\ YieldedIds = <<9, 8, 7, 6, 5, 4, 3, 2, 1, 0>>

\* C8 -- mixed scenario, as amended: ten futures, the even ones returning
\* Ok(i*10) and the odd ones Err(i): once the loop has ended there are
\* exactly 5 successes with sum 10*(0+2+4+6+8) = 200 and exactly 5 failures
\* with tags {1,3,5,7,9}, each reported once; no result is received twice.
MixedScenario ==
    demo = "errors" =>
        /\ \A k1, k2 \in 1 .. Len(yielded) :
              yielded[k1].id = yielded[k2].id => k1 = k2
        /\ LoopLeft =>
              /\ Cardinality(Successes) = 5
              /\ Cardinality(Failures) = 5
              /\ sum = 200
              /\ FailureTags = {1, 3, 5, 7, 9}
              /\ {yielded[k].val : k \in Successes} = {0, 20, 40, 60, 80}
              /\ Cardinality(ErrorLines) = 5

\* C8 as stated: the five successes sum to 100.
MixedScenarioStated ==
    demo = "errors" =>
        /\ \A k1, k2 \in 1 .. Len(yielded) :
              yielded[k1].id = yielded[k2].id => k1 = k2
        /\ LoopLeft =>
              /\ Cardinality(Successes) = 5
              /\ Cardinality(Failures) = 5
              /\ sum = 100
              /\ FailureTags = {1, 3, 5, 7, 9}

MixedWitness ==
    /\ demo = "errors"
    /\ pc = "done"
    /\ sum = 200
    /\ Cardinality(Failures) = 5
    /\ FailureTags = {1, 3, 5, 7, 9}
    /\ latency = PairedPlan

\* ------------------------------------------------------ fair scheduling
\* block_on polls the loop whenever it is woken, the creation loop and the
\* final prints run on, the clock advances, every armed timer expires and
\* every awaited network step ends.
Fairness ==
    /\ WF_vars(Push)
    /\ WF_vars(StartDrain)
    /\ WF_vars(AwaitNext)
    /\ WF_vars(LoopBody)
    /\ WF_vars(LoopExit)
    /\ WF_vars(ShowSum)
    /\ WF_vars(Finish)
    /\ WF_vars(Tick)
    /\ WF_vars(\E i \in Ops : TimerFire(i))
    /\ WF_vars(\E i \in Ops : \E res \in {"ok", "err"} : IoComplete(i, res))

SpecFair == Spec /\ Fairness

\* C10 -- no starvation, termination: under fair scheduling every pushed
\* future gets its first poll, no future leaves the batch without its
\* result being delivered, and the run ends with the loop exhausted and all
\* n results delivered.
NoStarvation ==
    /\ <>[](pc = "done" /\ absent = 1 /\ \A i \in Ops : Delivered(i))
    /\ <>(pushed = n /\ \A i \in Ops : stage[i] # "created")
    /\ [](\A i \in Ops : stage[i] = "done" => Delivered(i))

NoStarvationWitness ==
    /\ pc = "done"
    /\ n >= 3
    /\ absent = 1
    /\ \A i \in Ops : Delivered(i)
    /\ yielded[1].id = 2

\* ------------------------------------------- a free client of the API
\* A client that calls push and next in any order: pushes may come between
\* and after calls of next, and next may be called again after None.  While
\* a call of next() is suspended the client makes no other call.
InitApi ==
    /\ demo \in {"values", "urls"}
    /\ n \in 0 .. MaxBatch
    /\ latency \in IF demo = "urls" THEN {[i \in Ops |-> 0]}
                   ELSE [Ops -> 1 .. MaxLatency]
    /\ pc = "api"
    /\ awake = TRUE
    /\ InitRun

ApiPush ==
    /\ pc = "api"
    /\ awake
    /\ pushed < n
    /\ stage' = [stage EXCEPT ![pushed] = "created"]
    /\ readyq' = Enqueue(readyq, pushed)
    /\ pushed' = pushed + 1
    /\ pulledAtPush' = [pulledAtPush EXCEPT ![pushed] = Len(yielded)]
    /\ UNCHANGED <<demo, n, latency, pc, deadline, io, awake, now, yielded,
                   absent, sum, out>>

ApiNextPending ==
    /\ pc = "api"
    /\ awake
    /\ Polled.result.kind = "pending"
    /\ Multiplexed(Polled)
    /\ out' = out \o Polled.out
    /\ awake' = FALSE
    /\ UNCHANGED <<pulledAtPush, demo, n, latency, pc, pushed, now, yielded, absent, sum>>

ApiNextSome ==
    /\ pc = "api"
    /\ awake
    /\ Polled.result.kind = "some"
    /\ Multiplexed(Polled)
    /\ yielded' = Append(yielded, Polled.result)
    /\ out' = out \o Polled.out
    /\ UNCHANGED <<pulledAtPush, demo, n, latency, pc, pushed, awake, now, absent, sum>>

ApiNextNone ==
    /\ pc = "api"
    /\ awake
    /\ absent < MaxAbsent
    /\ Polled.result.kind = "none"
    /\ Multiplexed(Polled)
    /\ absent' = absent + 1
    /\ out' = out \o Polled.out
    /\ UNCHANGED <<pulledAtPush, demo, n, latency, pc, pushed, awake, now, yielded, sum>>

NextApi ==
    \/ ApiPush
    \/ ApiNextPending
    \/ ApiNextSome
    \/ ApiNextNone
    \/ Tick
    \/ \E i \in Ops : TimerFire(i)
    \/ \E i \in Ops : \E res \in {"ok", "err"} : IoComplete(i, res)

SpecApi == InitApi /\ [][NextApi]_vars

ApiNextCall == ApiNextPending \/ ApiNextSome \/ ApiNextNone

SingleDriver ==
    /\ [](\A k1, k2 \in 1 .. Len(readyq) :
              readyq[k1] = readyq[k2] => k1 = k2)
    /\ [](\A k \in 1 .. Len(readyq) :
              stage[readyq[k]] \notin {"unpushed", "done"})
    /\ [][(stage' # stage \/ deadline' # deadline) => (Push \/ NextCall)]_vars

SingleDriverWitness ==
    /\ pc = "drain"
    /\ Len(readyq) >= 2
    /\ \A k \in 1 .. Len(readyq) : stage[readyq[k]] \in {"sleep", "body"}
    /\ \E i \in Ops : stage[i] \in {"sleep", "fetch"} /\ i \notin Range(readyq)

\* C12 -- batch size: the incomplete futures are the pushed ones less the
\* delivered ones; once draining has started their number never grows and
\* drops by exactly one with each delivered result; next() has reported
\* exhaustion only with none left, and with none left a call reports it.
BatchSize ==
    /\ [](Cardinality(InFlight) = pushed - Len(yielded))
    /\ [](absent > 0 => InFlight = {})
    /\ []((pc = "drain" /\ InFlight = {}) => Polled.result.kind = "none")
    /\ [][pc = "drain" =>
            /\ Cardinality(InFlight') <= Cardinality(InFlight)
            /\ Cardinality(InFlight') =
                  Cardinality(InFlight) - (Len(yielded') - Len(yielded))
            /\ Len(yielded') - Len(yielded) \in {0, 1}]_vars

BatchSizeWitness ==
    /\ pc = "drain"
    /\ n >= 3
    /\ Len(yielded) = 2
    /\ Cardinality(InFlight) = n - 2

\* The client keeps calling next() while something is in flight; the clock,
\* the timers and the network steps go on.  Pushes come whenever the client
\* likes.
FairnessApi ==
    /\ WF_vars(ApiNextPending)
    /\ WF_vars(ApiNextSome)
    /\ WF_vars(Tick)
    /\ WF_vars(\E i \in Ops : TimerFire(i))
    /\ WF_vars(\E i \in Ops : \E res \in {"ok", "err"} : IoComplete(i, res))

\* The free client on batches of at most MaxLate futures.
InitLate ==
    /\ InitApi
    /\ n <= MaxLate

SpecApiFair == InitLate /\ [][NextApi]_vars /\ FairnessApi

\* Future i was pushed after some result had already been received.
Late(i) == i < pushed /\ pulledAtPush[i] > 0

\* C14 -- late insertion: a future pushed after results have been pulled is
\* in the batch until its own result is delivered, next() does not report
\* exhaustion while it is undelivered, its result comes after the results
\* pulled before its push and never twice, and with the client calling
\* next() on it is delivered in the end.
LateInsertion ==
    /\ [](\A k1, k2 \in 1 .. Len(yielded) :
              yielded[k1].id = yielded[k2].id => k1 = k2)
    /\ [](\A i \in Ops : Late(i) =>
              /\ Delivered(i) <=> stage[i] = "done"
              /\ Delivered(i) => Pos(i) > pulledAtPush[i])
    /\ [][ApiNextNone => \A i \in 0 .. (pushed - 1) : Delivered(i)]_vars
    /\ <>[](\A i \in 0 .. (pushed - 1) : Delivered(i))

LateInsertionWitness ==
    /\ pc = "api"
    /\ pushed >= 2
    /\ Late(pushed - 1)
    /\ Delivered(pushed - 1)
    /\ Len(yielded) = pushed

\* ------------------------------------------------ join! of two sleepers
\* demo_waiting_for_two_async_fns: block_on(call_both_sleepers()), which
\* joins first_sleeper (index 0, 1000 ms) and second_sleeper (index 1,
\* 1500 ms).  There is no multiplexer here: join! polls its futures itself.
InitJoin ==
    /\ demo = "join"
    /\ n = 2
    /\ latency = [i \in Ops |-> IF i = 0 THEN FirstSleepMillis
                                ELSE SecondSleepMillis]
    /\ pc = "start"
    /\ awake = FALSE
    /\ InitRun

\* block_on(call_both_sleepers()): the two sleeper futures are created and
\* the joined future gets its first poll.
StartJoin ==
    /\ pc = "start"
    /\ stage' = [i \in Ops |-> "created"]
    /\ pc' = "join"
    /\ awake' = TRUE
    /\ UNCHANGED <<pulledAtPush, demo, n, latency, pushed, deadline, io,
                   readyq, now, yielded, absent, sum, out>>

\* Sleepers awaited one after the other instead of joined.
AwaitInTurn(st) ==
    {i \in DOMAIN st : st[i] # "done" /\ \A j \in DOMAIN st : j < i => st[j] = "done"}

\* join! polls every one of its futures that has not completed yet.
JoinTargets(st) == {i \in DOMAIN st : st[i] # "done"}

JoinPoll(i) ==
    PollSleeper(demo, i, stage[i], deadline[i], latency[i], now)

\* The sleepers' state and the printed lines after one poll of the join,
\* the first sleeper being polled before the second.
JoinPolled ==
    LET T == JoinTargets(stage)
    IN  [stage |-> [i \in Ops |-> IF i \in T THEN JoinPoll(i).stage
                                  ELSE stage[i]],
         deadline |-> [i \in Ops |-> IF i \in T THEN JoinPoll(i).deadline
                                     ELSE deadline[i]],
         out |-> (IF 0 \in T THEN JoinPoll(0).out ELSE <<>>)
                 \o (IF 1 \in T THEN JoinPoll(1).out ELSE <<>>)]

JoinDone(st) == \A i \in DOMAIN st : st[i] = "done"

\* A poll of the join that leaves a sleeper unfinished: the task suspends.
JoinPending ==
    /\ pc = "join"
    /\ awake
    /\ ~JoinDone(JoinPolled.stage)
    /\ stage' = JoinPolled.stage
    /\ deadline' = JoinPolled.deadline
    /\ out' = out \o JoinPolled.out
    /\ awake' = FALSE
    /\ UNCHANGED <<pulledAtPush, demo, n, latency, pc, pushed, io, readyq,
                   now, yielded, absent, sum>>

\* A poll of the join that finds both sleepers finished: call_both_sleepers
\* and block_on return.
JoinReady ==
    /\ pc = "join"
    /\ awake
    /\ JoinDone(JoinPolled.stage)
    /\ stage' = JoinPolled.stage
    /\ deadline' = JoinPolled.deadline
    /\ out' = out \o JoinPolled.out
    /\ pc' = "finish"
    /\ UNCHANGED <<pulledAtPush, demo, n, latency, pushed, io, readyq, awake,
                   now, yielded, absent, sum>>

\* The timer of sleeper i expires and wakes the task that runs the join.
TimerWake(i) ==
    /\ pc = "join"
    /\ ~awake
    /\ stage[i] = "sleep"
    /\ SleepElapsed(deadline[i], now)
    /\ awake' = TRUE
    /\ UNCHANGED <<pulledAtPush, demo, n, latency, pc, pushed, stage,
                   deadline, io, readyq, now, yielded, absent, sum, out>>

NextJoin ==
    \/ StartJoin
    \/ JoinPending
    \/ JoinReady
    \/ Tick
    \/ \E i \in Ops : TimerWake(i)
    \/ Finish

SpecJoin == InitJoin /\ [][NextJoin]_vars

SleptLines == SelectSeq(out, LAMBDA l : l.line = "slept")

\* C13 -- join as a batch of two: the join returns only after both sleepers
\* have completed, not before 1500 ms; both sleeps run from the same start
\* (deadlines 1000 and 1500); each sleeper completes and prints exactly
\* once, the 1000 ms one first.
JoinAsBatch ==
    /\ pc \in {"finish", "done"} =>
          /\ \A i \in Ops : stage[i] = "done"
          /\ now >= SecondSleepMillis
          /\ SleptLines = <<Line("slept", 0), Line("slept", 1)>>
    /\ stage[0] # "created" => stage[1] # "created"
    /\ \A i \in Ops : stage[i] \in {"sleep", "done"} => deadline[i] = latency[i]
    /\ \A i \in Ops : stage[i] = "done" => now >= latency[i]
    /\ stage[1] = "done" => stage[0] = "done"
    /\ SleptLines \in {<<>>, <<Line("slept", 0)>>,
                       <<Line("slept", 0), Line("slept", 1)>>}
    /\ \A i \in Ops : (stage[i] = "done") <=>
                          (\E k \in 1 .. Len(out) : out[k] = Line("slept", i))

JoinAsBatchWitness ==
    /\ pc = "join"
    /\ stage[0] = "done"
    /\ stage[1] = "sleep"
    /\ now >= FirstSleepMillis
    /\ now < SecondSleepMillis
    /\ out = <<Line("slept", 0)>>

\* C15 -- laziness: while the futures are being created and pushed none of
\* them has started (no sleep armed, no fetch begun, nothing printed, the
\* clock not needed), and a future leaves its initial state only inside a
\* call of next().
Lazy ==
    /\ [](pc = "push" =>
              /\ \A i \in Ops : /\ stage[i] \in {"unpushed", "created"}
                                /\ io[i] = "none"
                                /\ deadline[i] = 0
              /\ out = <<>>
              /\ now = 0)
    /\ [][(\E i \in Ops : stage[i] = "created" /\ stage'[i] # "created")
              => NextCall]_vars

LazyWitness ==
    /\ pc = "push"
    /\ n >= 2
    /\ pushed = n
    /\ \A i \in Ops : stage[i] = "created"
    /\ out = <<>>

RECURSIVE SumOk(_)
SumOk(seq) ==
    IF seq = <<>> THEN 0
    ELSE (IF Head(seq).ok THEN Head(seq).val ELSE 0) + SumOk(Tail(seq))

\* C16 -- aggregate discipline: sum is always the sum of the success values
\* received so far; it changes only in a loop-body step that received one
\* more result, a success; a step that received an error leaves it alone.
AggregateDiscipline ==
    /\ [](sum = SumOk(yielded))
    /\ [][sum' # sum =>
            /\ LoopBody
            /\ Len(yielded') = Len(yielded) + 1
            /\ yielded'[Len(yielded')].ok]_vars
    /\ [][(Len(yielded') > Len(yielded) /\ ~yielded'[Len(yielded')].ok)
              => sum' = sum]_vars

AggregateWitness ==
    /\ demo = "errors"
    /\ Len(yielded) = 3
    /\ yielded[2].id = 2
    /\ ~yielded[3].ok
    /\ sum = 20

\* C17 -- failure reporting: in the demos that can fail, each future has
\* one error line if its Err has been received and none otherwise; the line
\* is printed by the loop-body step that receives the Err, and that step
\* stays in the loop.
FailureReporting ==
    /\ [](\A i \in Ops :
              Cardinality({k \in ErrorLines : out[k].id = i}) =
                  IF Delivered(i) /\ ~yielded[Pos(i)].ok THEN 1 ELSE 0)
    /\ [][(LoopBody /\ ~Polled.result.ok) =>
              /\ Len(out') > Len(out)
              /\ out'[Len(out')] = Line("error", Polled.result.val)
              /\ pc' = "drain"]_vars

FailureReportingWitness ==
    /\ demo = "urls"
    /\ pc = "done"
    /\ n = 3
    /\ ~yielded[1].ok
    /\ ~yielded[2].ok
    /\ yielded[3].ok
    /\ Cardinality(ErrorLines) = 2

HasLine(kind, i) == \E k \in 1 .. Len(out) : out[k] = Line(kind, i)
LinePos(kind, i) == CHOOSE k \in 1 .. Len(out) : out[k] = Line(kind, i)

\* C18 -- steps in sequence: a sleeper's result is received only after its
\* sleep has elapsed and its message is printed; a download prints
\* "Downloading" before anything else, reads the body only after a
\* successful fetch, returns the error of a failed fetch or body read as its
\* result without going on, and prints "Downloaded" only on success.
StepsInSequence ==
    /\ [](demo \in SleepDemos => \A i \in Ops : Delivered(i) =>
              /\ now >= deadline[i]
              /\ deadline[i] >= latency[i]
              /\ HasLine("slept", i)
              /\ HasLine("error", i) =>
                    LinePos("slept", i) < LinePos("error", i))
    /\ [](demo = "urls" => \A i \in Ops :
              /\ stage[i] \in {"fetch", "body", "done"} =>
                    HasLine("downloading", i)
              /\ HasLine("downloaded", i) =>
                    /\ LinePos("downloading", i) < LinePos("downloaded", i)
                    /\ Delivered(i)
                    /\ yielded[Pos(i)].ok
              /\ (Delivered(i) /\ yielded[Pos(i)].ok) =>
                    HasLine("downloaded", i))
    /\ [][\A i \in Ops :
              (stage[i] = "fetch" /\ stage'[i] = "body") => io[i] = "ok"]_vars
    /\ [][\A i \in Ops :
              (stage[i] \in {"fetch", "body"} /\ io[i] = "err"
                  /\ stage'[i] # stage[i]) =>
                  /\ stage'[i] = "done"
                  /\ \E k \in 1 .. Len(yielded') :
                        yielded'[k].id = i /\ ~yielded'[k].ok]_vars

StepsInSequenceWitness ==
    /\ demo = "urls"
    /\ pc = "done"
    /\ n = 2
    /\ ~yielded[1].ok
    /\ yielded[2].ok
    /\ HasLine("downloaded", yielded[2].id)
    /\ ~HasLine("downloaded", yielded[1].id)

\* C20 -- finalized after exhaustion: the sum line and the "Program
\* finished" line are printed, and the loop is left, only after next() has
\* returned None with every pushed future delivered; the sum line carries
\* the final sum and comes before the last line.
FinalizedAfterExhaustion ==
    /\ (LoopLeft \/ (\E k \in 1 .. Len(out) : out[k].line \in {"sum", "finished"}))
          => /\ absent = 1
             /\ pushed = n
             /\ \A i \in Ops : Delivered(i)
             /\ InFlight = {}
    /\ \A k \in 1 .. Len(out) :
          /\ out[k].line = "sum" => (out[k].id = sum /\ sum = SumOk(yielded)
                                     /\ k >= Len(out) - 1)
          /\ out[k].line = "finished" => (k = Len(out) /\ pc = "done")
    /\ pc = "done" => out[Len(out)] = Line("finished", 0)
    /\ (pc \in {"finish", "done"} /\ demo \in {"values", "errors"})
          => HasLine("sum", sum)

FinalizedWitness ==
    /\ demo = "errors"
    /\ pc = "done"
    /\ n = 3
    /\ Len(out) >= 2
    /\ out[Len(out) - 1] = Line("sum", 20)
    /\ out[Len(out)] = Line("finished", 0)

\* ------------------------------------- ten futures, many delivery orders
\* Sleep-time assignments for the ten futures that give many different
\* delivery orders: rotations, mirrored rotations and strides of 1..10, and
\* the plans above.
Rotation(k) == [i \in 0 .. (NumFutures - 1) |-> 1 + ((i + k) % NumFutures)]
Mirror(k) ==
    [i \in 0 .. (NumFutures - 1) |-> 1 + ((k + NumFutures - i) % NumFutures)]
Stride(m) == [i \in 0 .. (NumFutures - 1) |-> 1 + ((m * i) % NumFutures)]
OrderPlans ==
    {Rotation(k) : k \in 0 .. (NumFutures - 1)}
        \cup {Mirror(k) : k \in 0 .. (NumFutures - 1)}
        \cup {Stride(m) : m \in {3, 7, 9}}
        \cup Plans

InitOrders ==
    /\ demo \in {"values", "errors"}
    /\ n = NumFutures
    /\ latency \in OrderPlans
    /\ pc = "push"
    /\ awake = FALSE
    /\ InitRun

SpecOrders == InitOrders /\ [][NextScenario]_vars

\* C19 -- the final aggregate does not depend on the delivery order, as
\* amended: whatever the sleep times, once the loop has ended the
\* return-values demo has sum = 450 and the errors demo has sum = 200 and
\* five error reports.
FinalAggregate ==
    LoopLeft =>
        /\ demo = "values" => sum = 450
        /\ demo = "errors" => (sum = 200 /\ Cardinality(ErrorLines) = 5)

\* C19 as stated: the errors demo ends with sum = 100.
FinalAggregateStated ==
    LoopLeft =>
        /\ demo = "values" => sum = 450
        /\ demo = "errors" => (sum = 100 /\ Cardinality(ErrorLines) = 5)

FinalAggregateWitness ==
    /\ pc = "done"
    /\ demo = "errors"
    /\ latency = Stride(3)
    /\ YieldedIds = <<0, 7, 4, 1, 8, 5, 2, 9, 6, 3>>
    /\ sum = 200
    /\ Cardinality(ErrorLines) = 5

====
